---- MODULE Spec2Model ----
(***************************************************************************)
(* ProTrack II jump data extractor (src/extract.py): the run of main() on  *)
(* one input file, from the moment the file's lines are in `lined` to the  *)
(* last CSV row.                                                           *)
(*                                                                         *)
(* Numbers.  The program computes in binary floating point; the model     *)
(* computes in exact fixed point:                                          *)
(*   altitudes            centimetres          (m * 100)                   *)
(*   SAS altitudes        1/250 centimetre     (m * 25000)                 *)
(*   speeds               cm per 6 s           (m/s * 600)                 *)
(*   SAS speeds           1/250 cm per 6 s     (m/s * 150000)              *)
(*   accelerations        g * 9.80665 * 150                                *)
(*   times                milliseconds                                     *)
(* The barometric power law is tabulated (RawAltCm) for the pressures the  *)
(* model feeds in, rounded to the centimetre.                              *)
(***************************************************************************)
EXTENDS Integers, Sequences, FiniteSets, TLC

(* ------------------------------ bounds ------------------------------- *)

\* Largest number of pressure samples in a modelled input file.
MaxSamples == 35

\* Number of sample tokens the modelled device writes on one profile line.
WrapLen == 20

(* ------------------------- program constants ------------------------- *)

TimeStep == 250
TimeInitial == -2000
TimeSpeedStarts == 6000
TimeIncForSpeedInFF == 6
TimeIncForSpeedCanopy == 3
IndexIncForSpeedInFF == 24
IndexIncForSpeedCanopy == 12

\* int((time - TimeInitial) / TimeStep), for time >= TimeInitial
TimeToIndex(time) == (time - TimeInitial) \div TimeStep

IndexExit == (0 - TimeInitial) \div TimeStep

IndexSpeedStart == TimeToIndex(TimeSpeedStarts)

(* ---------------------------- arithmetic ----------------------------- *)

Abs(n) == IF n < 0 THEN 0 - n ELSE n

\* Python's round(n/d) for d > 0: nearest integer, ties to the even one.
RoundHalfEven(n, d) ==
    LET m == Abs(n)
        q == m \div d
        r == m % d
        up == IF 2 * r > d THEN 1
              ELSE IF 2 * r < d THEN 0
              ELSE q % 2
        v == q + up
    IN  IF n < 0 THEN 0 - v ELSE v

\* [q, r] with n * a = q * b + r and 0 <= r < b, for n, a >= 0 and b > 0,
\* without forming the product n * a (which may exceed the integer range).
RECURSIVE MulDivQR(_, _, _)
MulDivQR(n, a, b) ==
    IF a = 0 THEN [q |-> 0, r |-> 0]
    ELSE LET h == MulDivQR(n, a \div 2, b)
             q2 == 2 * h.q + (IF a % 2 = 1 THEN n \div b ELSE 0)
             r2 == 2 * h.r + (IF a % 2 = 1 THEN n % b ELSE 0)
         IN  [q |-> q2 + (r2 \div b), r |-> r2 % b]

\* round(n * a / (b1 * b2)), ties to even, for a, b1, b2 > 0.
RoundScaled(n, a, b1, b2) ==
    LET qr == MulDivQR(Abs(n), a, b1)
        whole == qr.q \div b2
        t == 2 * (qr.q % b2) - b2
        cmp == IF t >= 1 THEN 1
               ELSE IF t <= -2 THEN -1
               ELSE t * b1 + 2 * qr.r
        up == IF cmp > 0 THEN 1
              ELSE IF cmp < 0 THEN 0
              ELSE whole % 2
        v == whole + up
    IN  IF n < 0 THEN 0 - v ELSE v

(* ------------------------- unit conversions -------------------------- *)

\* round(m * 3.28084), m in centimetres
MToft(m) == RoundScaled(m, 328084, 100000, 100)

\* round(m * 2.23694), m a SAS speed in 1/150000 m/s
MsecTomph(m) == RoundScaled(m, 223694, 100000, 150000)

\* round(m), m a speed in 1/600 m/s
MsecToMsec(m) == RoundHalfEven(m, 600)

(* ------------------------- atmosphere model -------------------------- *)

\* The deca-Pascal readings the modelled files carry, and the ground
\* pressures of their headers.
Pressures == {7000, 8000, 9000}
GroundPressures == {10000}

\* STANDARD_TEMP_k * (1 - pow(p / SL_PRESSURE_DPA, BARO_POWER)) in cm,
\* tabulated from the formula with the program's constants.
RawAltCm(p) ==
    CASE p = 7000  -> 301218
      [] p = 8000  -> 194899
      [] p = 9000  -> 98850
      [] p = 10000 -> 11088

\* pow() of a negative base and a fractional exponent is a complex number.
IsComplex(p) == p < 0

PressureToMeter(p, GroundLevelMeter) ==
    RawAltCm(p) - 100 * GroundLevelMeter

\* int(...) of the raw altitude of the ground pressure, in whole metres
GroundLevelMeterOf(GroundLeveldPa) == RawAltCm(GroundLeveldPa) \div 100

\* round(15 - rawAltitude(exit_dbar) * 0.0065)
IcaoTempCOf(exit_dbar) ==
    RoundHalfEven(15000000 - 65 * RawAltCm(exit_dbar), 1000000)

\* hs and ht of the ground pressure, in 1/250 cm
HsOf(GroundLeveldPa) == RawAltCm(GroundLeveldPa) * 250
HtOf(GroundLeveldPa, icao_div) == RawAltCm(GroundLeveldPa) * (250 + icao_div)

\* raw * (1 + icao_div * 0.004) + (hs - ht) + GroundLevelMeter, in 1/250 cm
SasMeterOf(p, icao_div, hs, ht, GroundLevelMeter) ==
    RawAltCm(p) * (250 + icao_div) + (hs - ht) + 25000 * GroundLevelMeter

(* --------------------------- input files ----------------------------- *)

\* A line of the input file, by what the program asks of it: the markers it
\* contains ("JIB" in line), whether int(line) succeeds and with what value,
\* whether it is a date/time digit string, and, for a profile line, its
\* pieces of text between commas.
Markers == {"JIB", "JIE", "PIB", "PIE"}

MarkLine(ms) == [kind |-> "mark", marks |-> ms, val |-> 0, toks |-> <<>>]
IntLine(v)   == [kind |-> "int", marks |-> {}, val |-> v, toks |-> <<>>]
DateLine     == [kind |-> "date", marks |-> {}, val |-> 0, toks |-> <<>>]
TextLine     == [kind |-> "text", marks |-> {}, val |-> 0, toks |-> <<>>]
DataLine(ts) == [kind |-> "data", marks |-> {}, val |-> 0, toks |-> ts]

\* A piece of text of the profile section: a decimal integer or not, and
\* whether a comma follows it.
Tok(v) == [num |-> TRUE, val |-> v, comma |-> TRUE]
BadTok == [num |-> FALSE, val |-> 0, comma |-> TRUE]
Fragment == [num |-> FALSE, val |-> 0, comma |-> FALSE]
EmptyTok == [num |-> FALSE, val |-> 0, comma |-> FALSE]

Min(a, b) == IF a < b THEN a ELSE b

\* The 39 header lines of the newer layout.
Header(D, G, points) ==
    [k \in 1..39 |->
        CASE k - 1 = 0          -> MarkLine({"JIB"})
          [] k - 1 \in 1..4     -> TextLine
          [] k - 1 = 5          -> IntLine(123)
          [] k - 1 \in 6..7     -> DateLine
          [] k - 1 = 8          -> IntLine(4000)
          [] k - 1 = 9          -> IntLine(D)
          [] k - 1 \in 10..32   -> IntLine(50)
          [] k - 1 = 33         -> MarkLine({"JIE"})
          [] k - 1 = 34         -> MarkLine({"PIB"})
          [] k - 1 = 35         -> IntLine(G)
          [] k - 1 \in 36..37   -> IntLine(1)
          [] k - 1 = 38         -> IntLine(points)]

\* The sample tokens wrapped over lines of WrapLen tokens each.
DataLines(ts) ==
    [k \in 1..((Len(ts) + WrapLen - 1) \div WrapLen) |->
        DataLine(SubSeq(ts, (k - 1) * WrapLen + 1, Min(k * WrapLen, Len(ts))))]

File(D, G, points, ts) ==
    Header(D, G, points) \o DataLines(ts) \o <<MarkLine({"PIE"})>>

\* Deployment altitudes (metres) of the modelled headers.
DeployAlts == {1000, 2000}

\* Sample sequences: one pressure before the exit index, one for each of
\* the two lookback stretches, and any pressures from the first index the
\* derivative engine processes.
SampleSeq(n, a, b, c, tail) ==
    [k \in 1..n |->
        IF k - 1 < IndexExit THEN a
        ELSE IF k - 1 < IndexExit + IndexIncForSpeedCanopy THEN b
        ELSE IF k - 1 < IndexExit + IndexIncForSpeedInFF THEN c
        ELSE tail[k - (IndexExit + IndexIncForSpeedInFF)]]

TailLen(n) ==
    IF n > IndexExit + IndexIncForSpeedInFF
    THEN n - (IndexExit + IndexIncForSpeedInFF) ELSE 0

SampleSeqs ==
    UNION { { SampleSeq(n, a, b, c, tail) :
                a \in Pressures, b \in Pressures, c \in Pressures,
                tail \in [1..TailLen(n) -> Pressures] } : n \in 0..MaxSamples }

Toks(samples) == [k \in 1..Len(samples) |-> Tok(samples[k])]

GoodFiles ==
    { File(D, G, Len(s), Toks(s)) :
        D \in DeployAlts, G \in GroundPressures, s \in SampleSeqs }

\* One well-formed file, the base of the damaged ones.
BaseSamples ==
    SampleSeq(IndexExit + IndexIncForSpeedInFF + 2, 7000, 8000, 9000,
              <<7000, 9000>>)
BaseFile == File(1000, 10000, Len(BaseSamples), Toks(BaseSamples))

\* The declared point count differs from the number of samples.
MismatchFiles ==
    { File(1000, 10000, points, Toks(BaseSamples)) :
        points \in {0, Len(BaseSamples) - 1, Len(BaseSamples) + 1} }

\* One line replaced by free text.
DamagedFiles ==
    { [BaseFile EXCEPT ![k] = TextLine] : k \in 1..Len(BaseFile) }

\* The first n lines only, as they are or with PIE on the last of them.
WithPIE(l) == MarkLine(l.marks \cup {"PIE"})
TruncatedFiles ==
    { SubSeq(BaseFile, 1, n) : n \in 0..Len(BaseFile) }
    \cup { [SubSeq(BaseFile, 1, n) EXCEPT ![n] = WithPIE(BaseFile[n])] :
             n \in 1..Len(BaseFile) }

\* One sample token replaced by text or by a negative number.
TokenFiles ==
    { File(1000, 10000, Len(BaseSamples),
           [Toks(BaseSamples) EXCEPT ![k] = t]) :
        k \in {1, IndexExit + 1, Len(BaseSamples)}, t \in {BadTok, Tok(-1)} }

InputFiles ==
    GoodFiles \cup MismatchFiles \cup DamagedFiles \cup TruncatedFiles
    \cup TokenFiles

(* ------------------------------ state -------------------------------- *)

VARIABLES
    lined,              \* the lines of the input file
    pc,                 \* the stage main() is in
    outcome,            \* "running", "exit1" (message and sys.exit(1)),
                        \* "exception" (uncaught), "finished"
    error,              \* the uncaught exception's type, or "none"
    JumpNumber, DeploymentAltitude, GroundLeveldPa, profilePoints,
    JumpDataInt,
    GroundLevelMeter, exit_dbar, icao_div, hs, ht,
    AltiMeterList, SasMeterList, DeploymentIndex,
    SpeedList, SasSpeedList, AccelList,
    idxinc, timeinterval,
    i,                  \* the loop variable i
    it,                 \* iterations the running for loop has made
    csvOpen,            \* the output file has been created
    csvRows             \* the rows written after the header row

ctlVars  == <<pc, outcome, error>>
metaVars == <<JumpNumber, DeploymentAltitude, GroundLeveldPa, profilePoints>>
atmoVars == <<GroundLevelMeter, exit_dbar, icao_div, hs, ht>>
altVars  == <<AltiMeterList, SasMeterList, DeploymentIndex>>
derVars  == <<SpeedList, SasSpeedList, idxinc, timeinterval>>
csvVars  == <<csvOpen, csvRows>>

vars == <<lined, ctlVars, metaVars, JumpDataInt, atmoVars, altVars, derVars,
          AccelList, i, it, csvVars>>

\* The lines are read; nothing else is assigned yet (the lists and
\* DeploymentIndex get their initial values with the validation).
Init ==
    /\ lined \in InputFiles
    /\ pc = "validate" /\ outcome = "running" /\ error = "none"
    /\ JumpNumber = 0 /\ DeploymentAltitude = 0
    /\ GroundLeveldPa = 0 /\ profilePoints = 0
    /\ JumpDataInt = <<>>
    /\ GroundLevelMeter = 0 /\ exit_dbar = 0 /\ icao_div = 0
    /\ hs = 0 /\ ht = 0
    /\ AltiMeterList = <<>> /\ SasMeterList = <<>> /\ DeploymentIndex = -1
    /\ SpeedList = <<>> /\ SasSpeedList = <<>> /\ AccelList = <<>>
    /\ idxinc = 0 /\ timeinterval = 0
    /\ i = 0 /\ it = 0
    /\ csvOpen = FALSE /\ csvRows = <<>>

Fail(how, what) ==
    /\ outcome' = how
    /\ error' = what
    /\ pc' = pc

Goto(stage) ==
    /\ pc' = stage
    /\ UNCHANGED <<outcome, error>>

(* ----------------------------- validation ---------------------------- *)

\* "m in lined[k]" for the 0-based line k
Contains(m, ls, k) == m \in ls[k + 1].marks

\* Lines 151-162: "ok", "exit1", or the exception of an index out of range.
ValidateResult(ls) ==
    LET lines == Len(ls) IN
    IF lines = 0 \/ ~Contains("JIB", ls, 0) THEN "exit1"
    ELSE IF ~Contains("PIE", ls, lines - 1) THEN "exit1"
    ELSE IF 33 >= lines THEN "IndexError"
    ELSE IF ~Contains("JIE", ls, 33) THEN "exit1"
    ELSE IF 34 >= lines THEN "IndexError"
    ELSE IF ~Contains("PIB", ls, 34) THEN "exit1"
    ELSE "ok"

\* Validate, but with the output file created before the checks.
Validate_OpensOutputFirst ==
    /\ pc = "validate" /\ outcome = "running"
    /\ LET r == ValidateResult(lined) IN
         CASE r = "ok"    -> Goto("metadata")
           [] r = "exit1" -> Fail("exit1", "none")
           [] OTHER       -> Fail("exception", r)
    /\ csvOpen' = TRUE
    /\ UNCHANGED <<lined, metaVars, JumpDataInt, atmoVars, altVars, derVars,
                   AccelList, i, it, csvRows>>

Validate ==
    /\ pc = "validate" /\ outcome = "running"
    /\ LET r == ValidateResult(lined) IN
         CASE r = "ok"    -> Goto("metadata")
           [] r = "exit1" -> Fail("exit1", "none")
           [] OTHER       -> Fail("exception", r)
    /\ UNCHANGED <<lined, metaVars, JumpDataInt, atmoVars, altVars, derVars,
                   AccelList, i, it, csvVars>>

(* ------------------------------ parsing ------------------------------ *)

IsInt(l) == l.kind \in {"int", "date"}
IsDate(l) == l.kind = "date"

\* The 0-based lines converted with int(), in the order of the code.
IntFieldLines == {5} \cup (8..32) \cup (35..38)

\* What reading the 0-based header line k raises, if anything: lines 6 and 7
\* are parsed together as a date after line 7 is read.
FieldError(ls, k) ==
    IF k >= Len(ls) THEN "IndexError"
    ELSE IF k \in IntFieldLines /\ ~IsInt(ls[k + 1]) THEN "ValueError"
    ELSE IF k = 7 /\ ~(IsDate(ls[7]) /\ IsDate(ls[8])) THEN "ValueError"
    ELSE "none"

\* Lines 175-220: the first error in line order, or "none".
MetadataError(ls) ==
    LET bad == {k \in 1..38 : FieldError(ls, k) # "none"} IN
    IF bad = {} THEN "none"
    ELSE FieldError(ls, CHOOSE k \in bad : \A m \in bad : k <= m)

ParseMetadata ==
    /\ pc = "metadata" /\ outcome = "running"
    /\ LET e == MetadataError(lined) IN
         IF e = "none"
         THEN /\ JumpNumber' = lined[5 + 1].val
              /\ DeploymentAltitude' = lined[9 + 1].val
              /\ GroundLeveldPa' = lined[35 + 1].val
              /\ profilePoints' = lined[38 + 1].val
              /\ Goto("samples")
         ELSE /\ Fail("exception", e)
              /\ UNCHANGED metaVars
    /\ UNCHANGED <<lined, JumpDataInt, atmoVars, altVars, derVars,
                   AccelList, i, it, csvVars>>

\* ''.join(lined[39:lines-1]): the pieces of the 0-based lines 39..lines-2.
\* A line that is no profile line is one piece with no comma after it.
Pieces(l) == IF l.kind = "data" THEN l.toks ELSE <<Fragment>>

RECURSIVE Join(_, _, _)
Join(ls, from, to) ==
    IF from > to THEN <<>>
    ELSE Pieces(ls[from + 1]) \o Join(ls, from + 1, to)

\* .split(","): a piece with no comma after it runs into the next one; what
\* follows the last comma (possibly nothing) is the last element.
RECURSIVE Split(_, _)
Split(ps, k) ==
    IF k > Len(ps)
    THEN <<IF Len(ps) > 0 /\ ~ps[Len(ps)].comma THEN Fragment ELSE EmptyTok>>
    ELSE IF ~ps[k].comma THEN Split(ps, k + 1)
    ELSE <<IF k > 1 /\ ~ps[k - 1].comma THEN BadTok ELSE ps[k]>>
         \o Split(ps, k + 1)

\* JumpData.pop(): without the last element
Pop(s) == SubSeq(s, 1, Len(s) - 1)

JumpDataOf(ls) == Pop(Split(Join(ls, 39, Len(ls) - 2), 1))

ParseSamples ==
    /\ pc = "samples" /\ outcome = "running"
    /\ LET JumpData == JumpDataOf(lined) IN
         IF \A k \in 1..Len(JumpData) : JumpData[k].num
         THEN /\ JumpDataInt' = [k \in 1..Len(JumpData) |-> JumpData[k].val]
              /\ Goto("atmosphere")
         ELSE /\ Fail("exception", "ValueError")
              /\ UNCHANGED JumpDataInt
    /\ UNCHANGED <<lined, metaVars, atmoVars, altVars, derVars,
                   AccelList, i, it, csvVars>>

(* --------------------------- reconstruction -------------------------- *)

\* Lines 225-234.  JumpDataInt[IndexExit] needs IndexExit + 1 samples;
\* round() of a complex number raises TypeError.
AtmosphereError(data) ==
    IF IndexExit >= Len(data) THEN "IndexError"
    ELSE IF IsComplex(data[IndexExit + 1]) THEN "TypeError"
    ELSE "none"

AtmosphereSetup ==
    /\ pc = "atmosphere" /\ outcome = "running"
    /\ LET e == AtmosphereError(JumpDataInt) IN
         IF e = "none"
         THEN /\ GroundLevelMeter' = GroundLevelMeterOf(GroundLeveldPa)
              /\ exit_dbar' = JumpDataInt[IndexExit + 1]
              /\ icao_div' = IcaoTempCOf(JumpDataInt[IndexExit + 1])
              /\ hs' = HsOf(GroundLeveldPa)
              /\ ht' = HtOf(GroundLeveldPa, IcaoTempCOf(JumpDataInt[IndexExit + 1]))
              /\ Goto("reconstruct")
         ELSE /\ Fail("exception", e)
              /\ UNCHANGED atmoVars
    /\ UNCHANGED <<lined, metaVars, JumpDataInt, altVars, derVars,
                   AccelList, i, it, csvVars>>

\* NextDeploymentIndex, but overwritten by every crossing.
NextDeploymentIndex_LastCrossing(alti, deployAlt, current, idx) ==
    IF alti <= deployAlt THEN idx ELSE current

\* Line 253: the deployment index after the sample at index idx
NextDeploymentIndex(alti, deployAlt, current, idx) ==
    IF alti <= deployAlt /\ current = -1 THEN idx ELSE current

\* One iteration of the loop of lines 244-256.  A negative reading makes
\* alti complex, and "alti <= DeploymentAltitude" raises TypeError.
ReconstructStep ==
    /\ pc = "reconstruct" /\ outcome = "running"
    /\ it < Len(JumpDataInt)
    /\ LET readingDBar == JumpDataInt[it + 1] IN
         IF IsComplex(readingDBar)
         THEN /\ Fail("exception", "TypeError")
              /\ UNCHANGED <<altVars, i, it>>
         ELSE LET alti == PressureToMeter(readingDBar, GroundLevelMeter)
                  sasmeter == SasMeterOf(readingDBar, icao_div, hs, ht,
                                         GroundLevelMeter)
              IN  /\ AltiMeterList' = Append(AltiMeterList, alti)
                  /\ SasMeterList' = Append(SasMeterList, sasmeter)
                  /\ DeploymentIndex' =
                        NextDeploymentIndex(alti, 100 * DeploymentAltitude,
                                            DeploymentIndex, i)
                  /\ i' = i + 1
                  /\ it' = it + 1
                  /\ Goto("reconstruct")
    /\ UNCHANGED <<lined, metaVars, JumpDataInt, atmoVars, derVars,
                   AccelList, csvVars>>

\* The loop is exhausted; line 259.
ReconstructEnd ==
    /\ pc = "reconstruct" /\ outcome = "running"
    /\ it = Len(JumpDataInt)
    /\ i' = 0
    /\ it' = 0
    /\ Goto("speed")
    /\ UNCHANGED <<lined, metaVars, JumpDataInt, atmoVars, altVars, derVars,
                   AccelList, csvVars>>

(* ----------------------------- derivatives --------------------------- *)

\* Window, but latched to the canopy window from the deployment index on.
Window_Latched(alti, deployAlt) ==
    IF DeploymentIndex = -1 \/ IndexExit + IndexIncForSpeedInFF + it < DeploymentIndex
    THEN [idxinc |-> IndexIncForSpeedInFF,
          timeinterval |-> TimeIncForSpeedInFF]
    ELSE [idxinc |-> IndexIncForSpeedCanopy,
          timeinterval |-> TimeIncForSpeedCanopy]

\* Lines 261-266: [idxinc, timeinterval] for the altitude at the index
Window(alti, deployAlt) ==
    IF alti > deployAlt
    THEN [idxinc |-> IndexIncForSpeedInFF,
          timeinterval |-> TimeIncForSpeedInFF]
    ELSE [idxinc |-> IndexIncForSpeedCanopy,
          timeinterval |-> TimeIncForSpeedCanopy]

\* SpeedStart, but one index late.
SpeedStart_OneLate == IndexExit + IndexIncForSpeedInFF + 1

\* The first index of the speed loop, line 260
SpeedStart == IndexExit + IndexIncForSpeedInFF

\* list[k] of Python for a 0-based k that may be negative
At(list, k) == IF k >= 0 THEN list[k + 1] ELSE list[Len(list) + k + 1]

\* (list[idx - inc] - list[idx]) / interval, as a multiple of 1/6
Difference(list, idx, inc, interval) ==
    (At(list, idx - inc) - At(list, idx)) * (6 \div interval)

\* One iteration of the loop of lines 260-274.
SpeedStep ==
    /\ pc = "speed" /\ outcome = "running"
    /\ SpeedStart + it < Len(AltiMeterList)
    /\ LET idx == SpeedStart + it
           w == Window(At(AltiMeterList, idx), 100 * DeploymentAltitude)
       IN  /\ i' = idx
           /\ idxinc' = w.idxinc
           /\ timeinterval' = w.timeinterval
           /\ SpeedList' = Append(SpeedList,
                 Difference(AltiMeterList, idx, w.idxinc, w.timeinterval))
           /\ SasSpeedList' = Append(SasSpeedList,
                 Difference(SasMeterList, idx, w.idxinc, w.timeinterval))
    /\ it' = it + 1
    /\ Goto("speed")
    /\ UNCHANGED <<lined, metaVars, JumpDataInt, atmoVars, altVars,
                   AccelList, csvVars>>

\* The loop is exhausted; line 277.
SpeedEnd ==
    /\ pc = "speed" /\ outcome = "running"
    /\ SpeedStart + it >= Len(AltiMeterList)
    /\ i' = 0
    /\ it' = 0
    /\ Goto("accel")
    /\ UNCHANGED <<lined, metaVars, JumpDataInt, atmoVars, altVars, derVars,
                   AccelList, csvVars>>

\* Acceleration, but from the speeds as they are.
Acceleration_Unrounded(cur, prev) == cur - prev

\* Line 279: (MsecToMsec(cur) - MsecToMsec(prev)) / TimeStep / A_GRAVITY,
\* in units of g / (150 * 9.80665): a difference d of m/s is 4 * d m/s^2.
Acceleration(cur, prev) == (MsecToMsec(cur) - MsecToMsec(prev)) * 600

\* One iteration of the loop of lines 278-280.
AccelStep ==
    /\ pc = "accel" /\ outcome = "running"
    /\ 1 + it < Len(SpeedList)
    /\ LET idx == 1 + it IN
         /\ AccelList' = Append(AccelList,
               Acceleration(At(SpeedList, idx), At(SpeedList, idx - 1)))
         /\ i' = idx + 1
    /\ it' = it + 1
    /\ Goto("accel")
    /\ UNCHANGED <<lined, metaVars, JumpDataInt, atmoVars, altVars, derVars,
                   csvVars>>

\* The loop is exhausted; the summary is printed (lines 283-293).
AccelEnd ==
    /\ pc = "accel" /\ outcome = "running"
    /\ 1 + it >= Len(SpeedList)
    /\ it' = 0
    /\ Goto("open")
    /\ UNCHANGED <<lined, metaVars, JumpDataInt, atmoVars, altVars, derVars,
                   AccelList, i, csvVars>>

(* -------------------------------- output ----------------------------- *)

\* Lines 321-324: the file is created and the header row written.
OpenOutput ==
    /\ pc = "open" /\ outcome = "running"
    /\ csvOpen' = TRUE
    /\ csvRows' = <<>>
    /\ Goto("write")
    /\ UNCHANGED <<lined, metaVars, JumpDataInt, atmoVars, altVars, derVars,
                   AccelList, i, it>>

\* RowSample, but without the offset of the derivative series.
RowSample_NoOffset(k) == k

\* Line 328: the 0-based sample index of the row of derivative index k
RowSample(k) == k + TimeToIndex(0) + IndexIncForSpeedInFF

\* Line 329: the loop is left at this altitude
Stops(alti, deployAlt) == alti <= deployAlt

\* Line 335: the two numbers of a row
Row(alti, sas) == [alti |-> MToft(alti), sas |-> MsecTomph(sas)]

\* WriteStep, but passing over a sample at or below the deployment altitude
\* instead of leaving the loop.
WriteStep_SkipsInsteadOfBreaks ==
    /\ pc = "write" /\ outcome = "running"
    /\ it < Len(SasSpeedList)
    /\ i' = it
    /\ it' = it + 1
    /\ LET alti == At(AltiMeterList, RowSample(it)) IN
         IF Stops(alti, 100 * DeploymentAltitude)
         THEN UNCHANGED csvVars
         ELSE /\ csvRows' = Append(csvRows, Row(alti, At(SasSpeedList, it)))
              /\ UNCHANGED csvOpen
    /\ UNCHANGED <<lined, ctlVars, metaVars, JumpDataInt, atmoVars, altVars,
                   derVars, AccelList>>

\* One iteration of the loop of lines 325-335: a row, or the break.
WriteStep ==
    /\ pc = "write" /\ outcome = "running"
    /\ it < Len(SasSpeedList)
    /\ i' = it
    /\ LET alti == At(AltiMeterList, RowSample(it)) IN
         IF Stops(alti, 100 * DeploymentAltitude)
         THEN /\ outcome' = "finished"
              /\ UNCHANGED <<pc, error, it, csvVars>>
         ELSE /\ csvRows' = Append(csvRows, Row(alti, At(SasSpeedList, it)))
              /\ it' = it + 1
              /\ UNCHANGED <<ctlVars, csvOpen>>
    /\ UNCHANGED <<lined, metaVars, JumpDataInt, atmoVars, altVars, derVars,
                   AccelList>>

\* The loop is exhausted; the file is closed and main() returns.
WriteEnd ==
    /\ pc = "write" /\ outcome = "running"
    /\ it >= Len(SasSpeedList)
    /\ outcome' = "finished"
    /\ UNCHANGED <<lined, pc, error, metaVars, JumpDataInt, atmoVars, altVars,
                   derVars, AccelList, i, it, csvVars>>

Next ==
    \/ Validate
    \/ ParseMetadata
    \/ ParseSamples
    \/ AtmosphereSetup
    \/ ReconstructStep
    \/ ReconstructEnd
    \/ SpeedStep
    \/ SpeedEnd
    \/ AccelStep
    \/ AccelEnd
    \/ OpenOutput
    \/ WriteStep
    \/ WriteEnd

Spec == Init /\ [][Next]_vars

TypeOK ==
    /\ pc \in {"validate", "metadata", "samples", "atmosphere", "reconstruct",
               "speed", "accel", "open", "write"}
    /\ outcome \in {"running", "exit1", "exception", "finished"}
    /\ error \in {"none", "IndexError", "ValueError", "TypeError"}
    /\ Len(AltiMeterList) = Len(SasMeterList)
    /\ Len(SpeedList) = Len(SasSpeedList)

(* ------------------------------- claims ------------------------------ *)

DeployCm == 100 * DeploymentAltitude

\* The altitude (cm) of the 0-based sample j
Alt(j) == AltiMeterList[j + 1]
Sas(j) == SasMeterList[j + 1]

Reconstructed == pc \in {"speed", "accel", "open", "write"}
Derived == pc \in {"accel", "open", "write"}

\* The input fails one of the checks the validation is to make.
InvalidInput ==
    \/ Len(lined) = 0
    \/ "JIB" \notin lined[1].marks
    \/ "PIE" \notin lined[Len(lined)].marks
    \/ Len(lined) < 34
    \/ "JIE" \notin lined[34].marks
    \/ Len(lined) < 35
    \/ "PIB" \notin lined[35].marks

\* C1: an input that is empty, lacks JIB on line 0, PIE on the last line,
\* JIE on line 33 or PIB on line 34, or is too short to have those lines,
\* ends in the format-error rejection, in the validation, with no metadata
\* field converted and nothing computed.
C1_InvalidInputRejected ==
    (InvalidInput /\ ~(pc = "validate" /\ outcome = "running"))
        => /\ outcome = "exit1"
           /\ pc = "validate"
           /\ JumpDataInt = <<>> /\ AltiMeterList = <<>> /\ SpeedList = <<>>

\* C2: a run that fails has created no output file and written no row; the
\* file exists only once parsing, reconstruction and the derivatives are
\* complete.
C2_NoOutputOnFailure ==
    /\ outcome \in {"exit1", "exception"} => ~csvOpen /\ csvRows = <<>>
    /\ csvOpen =>
          /\ pc = "write"
          /\ Len(AltiMeterList) = Len(JumpDataInt)
          /\ Len(SasMeterList) = Len(JumpDataInt)
          /\ SpeedStart + Len(SpeedList) >= Len(AltiMeterList)
          /\ 1 + Len(AccelList) >= Len(SpeedList)

\* A run failed on the jump number of line 5, and there is no file.
C2_Witness ==
    /\ outcome = "exception" /\ error = "ValueError" /\ pc = "metadata"
    /\ lined[6].kind = "text"
    /\ ~csvOpen

\* C3: the deployment index is the smallest index of the samples processed
\* whose altitude is at or below the deployment altitude, and -1 exactly
\* when there is none; after the pass all samples are processed.
C3_FirstCrossing ==
    LET crossings == {k \in 0..(Len(AltiMeterList) - 1) : Alt(k) <= DeployCm}
    IN  /\ (DeploymentIndex = -1) <=> (crossings = {})
        /\ DeploymentIndex # -1 =>
              /\ DeploymentIndex \in crossings
              /\ \A k \in crossings : DeploymentIndex <= k
        /\ Reconstructed => Len(AltiMeterList) = Len(JumpDataInt)

\* The pass is over, and a sample after the deployment index rose above the
\* deployment altitude and a later one crossed it again.
C3_Witness ==
    /\ Reconstructed
    /\ DeploymentIndex >= 0
    /\ \E k, m \in 0..(Len(AltiMeterList) - 1) :
          /\ DeploymentIndex < k /\ k < m
          /\ Alt(k) > DeployCm
          /\ Alt(m) <= DeployCm

\* C4: when the reconstructor runs, the number of parsed samples is the
\* declared point count.
C4_CountIsDeclared ==
    pc \in {"reconstruct", "speed", "accel", "open", "write"}
        => Len(JumpDataInt) = profilePoints

\* The derivative indices whose sample is at or below the deployment
\* altitude
StopIndices ==
    {k \in 0..(Len(SpeedList) - 1) : Alt(k + IndexExit + 24) <= DeployCm}

RowsDue ==
    IF StopIndices = {} THEN Len(SpeedList)
    ELSE CHOOSE k \in StopIndices : \A m \in StopIndices : k <= m

\* C5: the finished CSV has one row for each derivative index below the
\* first one whose sample (at index k + exitIndex + 24) is at or below the
\* deployment altitude, and one row per speed entry if there is none; no
\* row is written past that index at any time.
C5_RowsUntilFirstStop ==
    /\ csvOpen => Len(csvRows) <= RowsDue
    /\ outcome = "finished" => Len(csvRows) = RowsDue

\* The output stopped at a sample, and a later sample of the speed series
\* is above the deployment altitude again.
C5_Witness ==
    /\ outcome = "finished"
    /\ Len(csvRows) >= 1
    /\ \E k \in 0..(Len(SpeedList) - 1) :
          /\ k > Len(csvRows)
          /\ Alt(k + IndexExit + 24) > DeployCm

\* C6: once the markers are validated and the numbers converted, no stage
\* ends in an uncaught exception.
C6_NoCrashAfterParsing ==
    outcome = "exception" => pc \in {"validate", "metadata", "samples"}

\* C7: at every index the derivative engine has processed, the window is 24
\* samples over 6 s exactly when that index's altitude is above the
\* deployment altitude, and 12 samples over 3 s otherwise; it is never 0.
C7_WindowByCurrentAltitude ==
    (pc = "speed" /\ it > 0) =>
        /\ idxinc # 0 /\ timeinterval # 0
        /\ IF Alt(i) > DeployCm
           THEN idxinc = 24 /\ timeinterval = 6
           ELSE idxinc = 12 /\ timeinterval = 3

\* The window is back at 12 after an index with 24 that followed one with 12.
C7_Witness ==
    /\ pc = "speed" /\ it >= 3
    /\ idxinc = 12
    /\ Alt(i - 1) > DeployCm
    /\ Alt(i - 2) <= DeployCm

\* The window the claims prescribe at the 0-based sample j
ClaimedWindow(j) == IF Alt(j) > DeployCm THEN 24 ELSE 12

\* C8: the speed and SAS speed series have the same length, in the end
\* max(0, N - (exitIndex + 24)); entry k is the difference quotient at the
\* sample j = k + exitIndex + 24 over the window w chosen at j,
\* (altitude[j - w] - altitude[j]) / (w * 0.25), and j - w is an index of
\* the series.
C8_SpeedAlignment ==
    /\ Len(SpeedList) = Len(SasSpeedList)
    /\ Derived =>
          Len(SpeedList) =
             IF Len(AltiMeterList) > IndexExit + 24
             THEN Len(AltiMeterList) - (IndexExit + 24) ELSE 0
    /\ \A k \in 0..(Len(SpeedList) - 1) :
          LET j == k + IndexExit + 24
              w == ClaimedWindow(j)
          IN  /\ j < Len(AltiMeterList)
              /\ j - w >= 0
              /\ SpeedList[k + 1] * w = (Alt(j - w) - Alt(j)) * 24
              /\ SasSpeedList[k + 1] * w = (Sas(j - w) - Sas(j)) * 24

\* The derivatives are complete, with entries of both windows.
C8_Witness ==
    /\ Derived
    /\ \E k, m \in 0..(Len(SpeedList) - 1) :
          /\ ClaimedWindow(k + IndexExit + 24) = 24
          /\ ClaimedWindow(m + IndexExit + 24) = 12
          /\ SpeedList[k + 1] # 0
          /\ SpeedList[m + 1] # 0

AccelComplete == pc \in {"open", "write"}

\* C9 as stated: each acceleration is the difference of the two speeds
\* themselves over 0.25 s and 9.80665, and there are len(speed) - 1 of them.
C9_FromUnroundedSpeeds ==
    /\ \A k \in 1..Len(AccelList) :
          AccelList[k] = SpeedList[k + 1] - SpeedList[k]
    /\ (AccelComplete /\ Len(SpeedList) > 0)
          => Len(AccelList) = Len(SpeedList) - 1

\* The nearest whole number of m/s to a speed in 1/600 m/s, ties to even
Nearest(n) ==
    CHOOSE r \in ((n \div 600) - 1)..((n \div 600) + 1) :
        /\ 2 * Abs(600 * r - n) <= 600
        /\ (2 * Abs(600 * r - n) = 600 => r % 2 = 0)

\* C9 amended: each acceleration is the difference of the two speeds each
\* rounded to the nearest whole m/s, over 0.25 s and 9.80665, and there are
\* len(speed) - 1 of them.
C9_FromRoundedSpeeds ==
    /\ \A k \in 1..Len(AccelList) :
          AccelList[k] =
             600 * (Nearest(SpeedList[k + 1]) - Nearest(SpeedList[k]))
    /\ (AccelComplete /\ Len(SpeedList) > 0)
          => Len(AccelList) = Len(SpeedList) - 1

\* The accelerations are complete and one differs from the difference of
\* the speeds themselves.
C9_Witness ==
    /\ AccelComplete
    /\ \E k \in 1..Len(AccelList) :
          AccelList[k] # SpeedList[k + 1] - SpeedList[k]

\* C10: row k of the CSV holds the altitude of the sample
\* j = k + exitIndex + 24 and the SAS speed computed at that same sample;
\* that sample is above the deployment altitude and its SAS speed is the
\* 24-sample, 6 s difference.
C10_RowsPairSameSample ==
    \A k \in 0..(Len(csvRows) - 1) :
        LET j == k + IndexExit + 24 IN
        /\ Alt(j) > DeployCm
        /\ csvRows[k + 1].alti = MToft(Alt(j))
        /\ csvRows[k + 1].sas = MsecTomph(Sas(j - 24) - Sas(j))
        /\ SasSpeedList[k + 1] = Sas(j - 24) - Sas(j)

\* Rows were written for a series that fell to the deployment altitude and
\* rose above it again within the speed series.
C10_Witness ==
    /\ outcome = "finished"
    /\ Len(csvRows) >= 1
    /\ \E k, m \in 0..(Len(SpeedList) - 1) :
          /\ k < m
          /\ Alt(k + IndexExit + 24) <= DeployCm
          /\ Alt(m + IndexExit + 24) > DeployCm

====
